---- MODULE Spec2Model ----
(***************************************************************************)
(* A model of the memory-games "ReasoningBank" runner:                     *)
(*   src/rb/memory_store.py   the JSONL memory store (add_items, _load,    *)
(*                            search with TF-IDF / cosine ranking)         *)
(*   src/rb/agent.py          one attempt (attempt_once) and its helpers   *)
(*   src/rb/llm.py            LLM.complete and its retry decorator         *)
(*   src/runner.py            main: the loop over the attempts             *)
(*                                                                         *)
(* Texts are sequences of words.  Files are sequences of lines.  Exit      *)
(* codes, completion responses and git outcomes are inputs the environment *)
(* chooses; the actions draw them with \E from small sets.                 *)
(***************************************************************************)
EXTENDS Integers, Sequences, FiniteSets, TLC

VARIABLES
    log,          \* the lines of the file at MemoryStore.path
    lastSearch,   \* the latest call of MemoryStore.search: arguments, data read, outcome
    adding,       \* add_items: the file f it holds open for append, with the lines
                  \* written to f that have not reached the file yet
    pc,           \* control position of runner.main / agent.attempt_once
    args,         \* runner.main's arguments: k (--k), refine (--refine), issue (--issue)
    llm,          \* main's llm: the provider chosen, and what its complete call in
                  \* progress has done (provider invocations, sleeps, last failure)
    i,            \* main's loop variable: the attempt that runs, or is next to run
    trace,        \* the calls the running attempt has made so far, in order
    branchCode,   \* exit code of the attempt's "git checkout -B" (new_branch discards it)
    tree,         \* whether the working tree differs from HEAD ("git diff" is non-empty)
    retrieved,    \* attempt_once: retrieved
    patch,        \* attempt_once: patch, then patch2
    apply1,       \* the value ok_apply got from the first apply_patch (agent.py:109)
    ok_apply,     \* attempt_once: ok_apply
    testRun,      \* what run() did for the test command: timeout or not, code, output
    success,      \* attempt_once: success
    prompt,       \* extract_memory: prompt, as the name of the prompt chosen
    out,          \* extract_memory: out, the text the distillation completion returned
    items,        \* attempt_once: items
    traj_log,     \* attempt_once: traj_log, as the list of the entries appended to it
    results,      \* main: results
    best,         \* main: best
    raised        \* the exception that ended the process, and the call that raised it

storeVars == <<log, lastSearch, adding>>

attemptVars == <<trace, branchCode, retrieved, patch, apply1, ok_apply, testRun,
                 success, prompt, out, items, traj_log>>

mainVars == <<args, llm, i, results, best>>

vars == <<storeVars, pc, attemptVars, mainVars, tree, raised>>

(***************************************************************************)
(* Bounds of the model.                                                    *)
(***************************************************************************)
\* longest memory file the stand-alone store specification builds
MaxLog == 3
\* largest top_k a stand-alone search is called with
MaxTopK == 3

(***************************************************************************)
(* Generic helpers.                                                        *)
(***************************************************************************)
Min(a, b) == IF a <= b THEN a ELSE b

Max(a, b) == IF a >= b THEN a ELSE b

Range(s) == {s[x] : x \in DOMAIN s}

RECURSIVE SumOver(_, _)
\* the sum of f[x] over the finite set S
SumOver(S, f) ==
    IF S = {} THEN 0
    ELSE LET x == CHOOSE y \in S : TRUE
         IN  f[x] + SumOver(S \ {x}, f)

\* None: Python's None, where the value is otherwise a string
None == "None"

(***************************************************************************)
(* Texts.  A text is a sequence of words, which whitespace may separate;   *)
(* TfidfVectorizer's analyzer (lowercase, token_pattern r"(?u)\b\w\w+\b",  *)
(* stop_words="english") drops the whitespace, the one-letter words and    *)
(* the English stop words.                                                 *)
(***************************************************************************)
\* a newline and a space: what \s matches and str.strip() removes
Whitespace == {"\n", " "}

Words == {"fix", "loop", "the", "a"}

\* words in sklearn's ENGLISH_STOP_WORDS
StopWords == {"the", "a"}

\* words the token pattern does not match (fewer than two word characters)
ShortWords == {"a"}

\* the analyzer of TfidfVectorizer(stop_words="english")
Tokenize(text) ==
    SelectSeq(text, LAMBDA w : w \notin Whitespace /\ w \notin ShortWords /\ w \notin StopWords)

(***************************************************************************)
(* MemoryItem (memory_store.py:8-15).  created_at and source are carried   *)
(* along by the code and never read by it; they are left out.              *)
(***************************************************************************)
MemoryItem(t, d, c, o) == [title |-> t, description |-> d, content |-> c, outcome |-> o]

\* the items the stand-alone store specification adds and finds
StoreItems ==
    { MemoryItem(<<"fix">>, <<"fix">>, <<"loop">>, "success"),
      MemoryItem(<<"loop">>, <<"fix">>, <<"loop", "loop">>, "failure"),
      MemoryItem(<<"the">>, <<"a">>, <<"a">>, "failure") }

(***************************************************************************)
(* The memory file.  A line is the JSON text of one item, or text that is  *)
(* not JSON, or a blank line.                                              *)
(***************************************************************************)
\* json.dumps(asdict(it), ensure_ascii=False) + "\n"  (memory_store.py:41)
JsonDumps(it) == [kind |-> "json", val |-> it]

\* what a line that holds no item carries
NoItem == MemoryItem(<<>>, <<>>, <<>>, None)

BadLine == [kind |-> "bad", val |-> NoItem]

BlankLine == [kind |-> "blank", val |-> NoItem]

\* a line json.loads accepts that is not the JSON of an item: an object
\* without "title" and "content", such as {"note": "fix"}
OtherLine == [kind |-> "json", val |-> [note |-> <<"fix">>]]

RECURSIVE WriteAll(_, _)
\* the loop of add_items: f.write(...) for each item, in order
WriteAll(file, its) ==
    IF its = <<>> THEN file
    ELSE WriteAll(Append(file, JsonDumps(Head(its))), Tail(its))

\* faulty variant of add_items: the file opened with "w", which truncates it
add_itemsTruncating(file, its) == WriteAll(<<>>, its)

\* MemoryStore.add_items, JSONL branch: the file opened in append mode
add_items(file, its) == WriteAll(file, its)

RECURSIVE load(_)
\* MemoryStore._load: blank lines and lines json.loads rejects are skipped
load(file) ==
    IF file = <<>> THEN <<>>
    ELSE LET line == Head(file)
             rest == load(Tail(file))
         IN  IF line.kind = "blank" THEN rest
             ELSE IF line.kind = "bad" THEN rest
             ELSE <<line.val>> \o rest

(***************************************************************************)
(* TF-IDF and cosine similarity, as sklearn computes them with the         *)
(* vectorizer's defaults (raw term counts, smooth idf, l2 norm), in fixed  *)
(* point: idf is held in hundredths, a similarity as the square of the     *)
(* cosine in millionths.                                                   *)
(***************************************************************************)
\* 100 * ln(x) for x = 1..16, rounded
Ln100 == <<0, 69, 110, 139, 161, 179, 195, 208, 220, 230, 240, 248, 256, 264, 271, 277>>

\* idf(t) = ln((1 + n) / (1 + df(t))) + 1
Idf(n, df) == 100 + Ln100[n + 1] - Ln100[df + 1]

\* number of occurrences of token t in the token sequence toks
Tf(toks, t) == Cardinality({x \in DOMAIN toks : toks[x] = t})

\* the vocabulary fit_transform learns from the corpus (a sequence of token sequences)
Vocabulary(corpus) == UNION {Range(corpus[x]) : x \in DOMAIN corpus}

\* number of documents of the corpus holding token t
Df(corpus, t) == Cardinality({x \in DOMAIN corpus : t \in Range(corpus[x])})

\* the (unnormalised) tf-idf weight of token t in document toks
Weight(corpus, toks, t) == Tf(toks, t) * Idf(Len(corpus), Df(corpus, t))

\* dot product of the weight vectors of two documents
Dot(corpus, a, b) ==
    SumOver(Vocabulary(corpus),
            [t \in Vocabulary(corpus) |-> Weight(corpus, a, t) * Weight(corpus, b, t)])

\* cosine_similarity of the l2-normalised rows: 0 for a zero row
Cosine2(corpus, d, q) ==
    LET dq == Dot(corpus, d, q)
        dd == Dot(corpus, d, d)
        qq == Dot(corpus, q, q)
    IN  IF dd = 0 \/ qq = 0 THEN 0
        ELSE ((dq * 1000) \div dd) * ((dq * 1000) \div qq)

\* docs = [d["title"] + "\n" + d["content"] for d in data]  (memory_store.py:66)
DocOf(d) == d.title \o d.content

\* sims: the similarity of every stored document to the query (memory_store.py:67-69)
Sims(data, query) ==
    LET corpus == [x \in 1..(Len(data) + 1) |->
                      IF x <= Len(data) THEN Tokenize(DocOf(data[x])) ELSE Tokenize(query)]
    IN  [x \in 1..Len(data) |-> Cosine2(corpus, corpus[x], corpus[Len(data) + 1])]

\* TfidfVectorizer.fit_transform raises ValueError("empty vocabulary; ...")
\* when no document of the corpus yields a token
EmptyVocabulary(data, query) ==
    /\ Tokenize(query) = <<>>
    /\ \A x \in DOMAIN data : Tokenize(DocOf(data[x])) = <<>>

\* faulty variant of Before: an unstable sort, equal scores come out in
\* reverse order of position
BeforeLaterFirst(sims, a, b) == sims[a] > sims[b] \/ (sims[a] = sims[b] /\ a > b)

\* faulty variant of Before: reverse=True left out, the sort ascends
BeforeAscending(sims, a, b) == sims[a] < sims[b] \/ (sims[a] = sims[b] /\ a < b)

\* index a comes before index b in sorted(..., key=lambda x: x[1], reverse=True):
\* the sort is stable, also with reverse=True
Before(sims, a, b) == sims[a] > sims[b] \/ (sims[a] = sims[b] /\ a < b)

\* sorted(zip(range(len(data)), sims), key=..., reverse=True): the indices, ranked
Ranked(sims) ==
    [p \in DOMAIN sims |->
        CHOOSE a \in DOMAIN sims :
            Cardinality({b \in DOMAIN sims : Before(sims, b, a)}) = p - 1]

\* Python's s[:k]
Slice(s, k) ==
    IF k >= 0 THEN SubSeq(s, 1, Min(k, Len(s)))
    ELSE SubSeq(s, 1, Max(Len(s) + k, 0))

\* d["title"] and d["content"] can be read (memory_store.py:66)
HasDocKeys(d) == {"title", "content"} \subseteq DOMAIN d

\* faulty variant of search: "if not data: return []" left out, so an empty
\* corpus reaches the vectorizer and cosine_similarity
searchUnguarded(file, query, top_k) ==
    LET data == load(file)
    IN  IF \E x \in DOMAIN data : ~HasDocKeys(data[x])
        THEN [raised |-> "KeyError", idx |-> <<>>, out |-> <<>>]
        ELSE IF EmptyVocabulary(data, query) \/ data = <<>>
        THEN [raised |-> "ValueError", idx |-> <<>>, out |-> <<>>]
        ELSE LET ranked == Slice(Ranked(Sims(data, query)), top_k)
             IN  [raised |-> None, idx |-> ranked,
                  out |-> [p \in DOMAIN ranked |-> data[ranked[p]]]]

\* MemoryStore.search, JSONL branch: the outcome of search(query, top_k)
\* on the file as it is read
search(file, query, top_k) ==
    LET data == load(file)
    IN  IF data = <<>> THEN [raised |-> None, idx |-> <<>>, out |-> <<>>]
        ELSE IF \E x \in DOMAIN data : ~HasDocKeys(data[x])
             THEN [raised |-> "KeyError", idx |-> <<>>, out |-> <<>>]
        ELSE IF EmptyVocabulary(data, query)
             THEN [raised |-> "ValueError", idx |-> <<>>, out |-> <<>>]
        ELSE LET ranked == Slice(Ranked(Sims(data, query)), top_k)
             IN  [raised |-> None, idx |-> ranked,
                  out |-> [p \in DOMAIN ranked |-> data[ranked[p]]]]

(***************************************************************************)
(* Values of variables that hold nothing yet.  A local of attempt_once is  *)
(* unbound until its assignment runs; the model gives it a value of its    *)
(* type, and `trace` tells whether the assignment has run.                 *)
(***************************************************************************)
\* run() has not been called for the test command
NoRun == [code |-> 0, out |-> None, timedOut |-> FALSE]

\* no exception has been raised
NoRaise == [exc |-> None, at |-> None]

\* main has not chosen yet
NoBest == [branch |-> 0]

\* LLM() with RB_LLM_PROVIDER unset (llm.py:9), no complete call in progress
DefaultLLM == [provider |-> "anthropic", calls |-> 0, waits |-> <<>>, last |-> None]

\* the locals of attempt_once before the call
NoAttempt ==
    /\ trace = <<>> /\ branchCode = 0 /\ retrieved = <<>> /\ patch = <<>>
    /\ apply1 = FALSE /\ ok_apply = FALSE /\ testRun = NoRun /\ success = FALSE
    /\ prompt = None /\ out = <<>> /\ items = <<>> /\ traj_log = <<>>

(***************************************************************************)
(* The store on its own: any sequence of add_items and search calls on a   *)
(* file that may hold anything when the store is constructed.              *)
(***************************************************************************)
\* search has not been called (since the last add_items)
\* no add_items call is in progress: no file object is open
Closed == [open |-> FALSE, start |-> 0, items |-> <<>>, next |-> 1, buffer |-> <<>>]

NoSearch ==
    [called |-> FALSE, query |-> <<>>, top_k |-> 0, data |-> <<>>,
     res |-> [raised |-> None, idx |-> <<>>, out |-> <<>>]]

Queries == {<<"fix">>, <<"loop", "the">>, <<"the">>, <<>>}

TopKs == (-1)..MaxTopK

\* the item lists add_items is called with
ItemLists == {<<>>} \cup {<<x>> : x \in StoreItems} \cup {<<x, y>> : x, y \in StoreItems}

\* MemoryStore.__init__: the file is created empty if absent, and is
\* whatever it holds otherwise
StoreInit ==
    /\ log \in {<<>>, <<BadLine>>, <<BlankLine>>, <<OtherLine>>}
    /\ lastSearch = NoSearch /\ adding = Closed
    /\ pc = "store"
    /\ args = [k |-> 0, refine |-> 0, issue |-> <<>>]
    /\ llm = DefaultLLM
    /\ i = 0 /\ results = <<>> /\ best = NoBest
    /\ NoAttempt
    /\ tree = FALSE /\ raised = NoRaise

\* a call of add_items(items)
StoreAdd(its) ==
    /\ pc = "store"
    /\ Len(log) + Len(its) <= MaxLog
    /\ log' = add_items(log, its)
    /\ lastSearch' = NoSearch
    /\ UNCHANGED <<adding, pc, attemptVars, mainVars, tree, raised>>

\* faulty variant of StoreSearch: the search writes the records it loaded
\* back, dropping the lines _load skipped
StoreSearchRewrites(query, top_k) ==
    /\ pc = "store"
    /\ lastSearch' = [called |-> TRUE, query |-> query, top_k |-> top_k,
                      data |-> load(log), res |-> search(log, query, top_k)]
    /\ log' = add_items(<<>>, load(log))
    /\ UNCHANGED <<adding, pc, attemptVars, mainVars, tree, raised>>

\* a call of search(query, top_k)
StoreSearch(query, top_k) ==
    /\ pc = "store"
    /\ lastSearch' = [called |-> TRUE, query |-> query, top_k |-> top_k,
                      data |-> load(log), res |-> search(log, query, top_k)]
    /\ UNCHANGED <<log, adding, pc, attemptVars, mainVars, tree, raised>>

StoreNext ==
    \/ \E its \in ItemLists : StoreAdd(its)
    \/ \E q \in Queries, n \in TopKs : StoreSearch(q, n)

SpecStore == StoreInit /\ [][StoreNext]_vars

(***************************************************************************)
(* agent.py and llm.py: the helpers of one attempt.                        *)
(***************************************************************************)
\* most attempts main is run with (--k)
MaxK == 2
\* largest --refine main is run with
MaxRefine == 2

\* the sentinel exit code of run() (agent.py:16)
TimeoutCode == 124
\* tenacity's stop_after_attempt(3) on LLM.complete (llm.py:33)
StopAfterAttempt == 3
\* items[:3] in extract_memory (agent.py:98)
DistillCap == 3
\* top_k of the attempt's retrieval (agent.py:104)
RetrieveTopK == 1

\* Popen.returncode of a process that p.kill() ended: minus SIGKILL
Killed == 0 - 9

\* exit codes a test command ends with of its own accord
ExitCodes == {0, 1, TimeoutCode}

\* what the environment does with a command given to run()
RunOutcomes ==
    {[timeout |-> TRUE, returncode |-> Killed]}
        \cup {[timeout |-> FALSE, returncode |-> c] : c \in ExitCodes}

\* exit codes of the git commands: 0, or git's failure codes
GitCodes == {0, 128}

\* faulty variant of run: after the kill the process's own return code is
\* returned instead of the sentinel
runKeepsReturncode(outcome) ==
    [code |-> outcome.returncode,
     out |-> IF outcome.timeout THEN "TIMEOUT" ELSE "output",
     timedOut |-> outcome.timeout]

\* run(cmd, cwd, timeout): (124, "TIMEOUT running: ...") when communicate()
\* times out, (p.returncode, out) otherwise
run(outcome) ==
    IF outcome.timeout
    THEN [code |-> TimeoutCode, out |-> "TIMEOUT", timedOut |-> TRUE]
    ELSE [code |-> outcome.returncode, out |-> "output", timedOut |-> FALSE]

\* ensure_git raises RuntimeError iff "git rev-parse" does not exit 0
ensure_git(code) == IF code # 0 THEN "RuntimeError" ELSE None

\* LLM.complete under @retry(stop=stop_after_attempt(3)): the provider fails
\* `fails` times in a row before it would answer `text`; tenacity raises
\* RetryError when the third try fails too
complete(fails, text) ==
    IF fails >= StopAfterAttempt
    THEN [raised |-> "RetryError", text |-> <<>>]
    ELSE [raised |-> None, text |-> text]

\* what a generation or refine completion answers; "FENCE" stands for a
\* line of three backquotes
ModelOuts ==
    { <<"diff">>,
      <<"NO_PATCH_NEEDED">>,
      <<"NO_PATCH_NEEDED", "FENCE", "diff", "FENCE">> }

\* extract_patch: the inside of the first fenced block, or the whole text
extract_patch(text) ==
    LET fences == {x \in DOMAIN text : text[x] = "FENCE"}
    IN  IF Cardinality(fences) >= 2
        THEN LET a == CHOOSE x \in fences : \A y \in fences : x <= y
                 b == CHOOSE x \in fences \ {a} : \A y \in fences \ {a} : x <= y
             IN  SubSeq(text, a + 1, b - 1)
        ELSE text

\* faulty variant of apply_patch: the sentinel is not looked for, git apply
\* runs on every patch text
apply_patchNoSentinel(patch_text, code) == [ok |-> code = 0, ran |-> TRUE]

\* apply_patch: the sentinel short-circuits; otherwise "git apply --reject"
\* runs and its exit code decides
apply_patch(patch_text, code) ==
    IF "NO_PATCH_NEEDED" \in Range(patch_text)
    THEN [ok |-> TRUE, ran |-> FALSE]
    ELSE [ok |-> code = 0, ran |-> TRUE]

\* the working tree after apply_patch: untouched by the sentinel, changed by a
\* patch that applied, changed or not by one whose hunks were partly rejected
TreeAfter(before, res, code, partial) ==
    IF ~res.ran THEN before
    ELSE IF code = 0 THEN TRUE
    ELSE before \/ partial

\* faulty variant of label_success_from_tests: success also asks for a patch
\* that applied
labelRequiresApply(code) == code = 0 /\ ok_apply

\* label_success_from_tests: code == 0
label_success_from_tests(code) == code = 0

(***************************************************************************)
(* extract_memory (agent.py:79-98).  A text is a sequence of tokens: a     *)
(* newline, a space, a word, or one of the four markers the parser looks   *)
(* for, each marker standing for its characters.                           *)
(***************************************************************************)
\* the delimiter line "# Memory Item i"
ItemMark == "# Memory Item 1"

TitleMark == "## Title"

DescriptionMark == "## Description"

ContentMark == "## Content"

\* index of the last token of the line that position p is on ("." and "$"
\* stop at a newline)
LineEnd(text, p) ==
    LET nls == {x \in p..Len(text) : text[x] = "\n"}
    IN  IF nls = {} THEN Len(text)
        ELSE (CHOOSE x \in nls : \A y \in nls : x <= y) - 1

\* where r"(?m)^# Memory Item .*?$" matches: the mark at the start of a line
Delimiters(text) ==
    {p \in DOMAIN text : text[p] = ItemMark /\ (p = 1 \/ text[p - 1] = "\n")}

RECURSIVE SplitBlocks(_)
\* re.split(r"(?m)^# Memory Item .*?$", out): the texts before, between and
\* after the delimiter lines; a match takes the line up to its newline
SplitBlocks(text) ==
    LET ds == Delimiters(text)
    IN  IF ds = {} THEN <<text>>
        ELSE LET p == CHOOSE x \in ds : \A y \in ds : x <= y
             IN  <<SubSeq(text, 1, p - 1)>>
                 \o SplitBlocks(SubSeq(text, LineEnd(text, p) + 1, Len(text)))

\* a regex of extract_memory that finds nothing in the block
NoMatch == [found |-> FALSE, group |-> <<>>]

\* the positions where "(.+)" can begin when the mark is at p: "\s*" takes
\* the whitespace after the mark and gives it back while "." has nothing to
\* match; "." matches a newline only with re.DOTALL
GroupStarts(blk, p, dotall) ==
    LET wsEnd == CHOOSE e \in p..Len(blk) :
                    /\ \A x \in (p + 1)..e : blk[x] \in Whitespace
                    /\ (e < Len(blk) => blk[e + 1] \notin Whitespace)
    IN  {x \in (p + 1)..Min(wsEnd + 1, Len(blk)) : dotall \/ blk[x] # "\n"}

\* re.search(r"##\s*<mark>\s*(.+)", blk[, re.DOTALL]): the leftmost mark
\* the pattern matches at; group(1) runs from the last possible start to
\* the end of the line, or of the block with re.DOTALL
re_search(mark, blk, dotall) ==
    LET ps == {p \in DOMAIN blk : blk[p] = mark /\ GroupStarts(blk, p, dotall) # {}}
    IN  IF ps = {} THEN NoMatch
        ELSE LET p == CHOOSE x \in ps : \A y \in ps : x <= y
                 starts == GroupStarts(blk, p, dotall)
                 from == CHOOSE x \in starts : \A y \in starts : x >= y
                 to == IF dotall THEN Len(blk) ELSE LineEnd(blk, from)
             IN  [found |-> TRUE, group |-> SubSeq(blk, from, to)]

\* str.strip()
strip(text) ==
    LET keep == {x \in DOMAIN text : text[x] \notin Whitespace}
    IN  IF keep = {} THEN <<>>
        ELSE SubSeq(text, CHOOSE x \in keep : \A y \in keep : x <= y,
                          CHOOSE x \in keep : \A y \in keep : x >= y)

\* a line "<mark> <words>\n" of a response
Line(mark, words) == <<mark, " ">> \o words \o <<"\n">>

\* a block as the prompts ask for it (prompts.py:21-24, 38-41)
Block(t, d, c) ==
    <<ItemMark, "\n">> \o Line(TitleMark, t) \o Line(DescriptionMark, d)
                      \o Line(ContentMark, c)

\* what a distillation completion answers
DistillOuts ==
    { <<"fix", "loop">>,
      <<"fix", "\n", ItemMark, "\n">> \o Line(TitleMark, <<"fix">>)
          \o Line(DescriptionMark, <<"fix">>) \o Block(<<"fix">>, <<"fix">>, <<"loop">>),
      Block(<<"the">>, <<"a">>, <<"a">>),
      Block(<<"fix">>, <<"fix">>, <<"loop">>) \o Block(<<"loop">>, <<"fix">>, <<"loop">>)
          \o Block(<<"fix">>, <<"loop">>, <<"fix">>) \o Block(<<"loop">>, <<"loop">>, <<"fix">>),
      <<ItemMark, "\n", TitleMark, "\n">> \o Line(DescriptionMark, <<"fix">>)
          \o <<ContentMark, "\n">> \o Block(<<"loop">>, <<"fix">>, <<"loop">>) }

RECURSIVE ParseBlocks(_, _)
\* the loop of extract_memory: an item for every block in which all three
\* patterns match
ParseBlocks(blocks, outcome) ==
    IF blocks = <<>> THEN <<>>
    ELSE LET blk == Head(blocks)
             rest == ParseBlocks(Tail(blocks), outcome)
             t == re_search(TitleMark, blk, FALSE)
             d == re_search(DescriptionMark, blk, FALSE)
             c == re_search(ContentMark, blk, TRUE)
         IN  IF t.found /\ d.found /\ c.found
             THEN <<MemoryItem(strip(t.group), strip(d.group), strip(c.group), outcome)>>
                  \o rest
             ELSE rest

\* extract_memory, after the completion call: the blocks parsed, items[:3]
extract_memory(text, outcome) ==
    Slice(ParseBlocks(SplitBlocks(text), outcome), DistillCap)

\* faulty variant of Outcome: every attempt is distilled as a success
OutcomeAlwaysSuccess(ok) == "success"

\* outcome = "success" if success else "failure"   (agent.py:125)
Outcome(ok) == IF ok THEN "success" ELSE "failure"

\* the prompt extract_memory chooses (agent.py:80)
ExtractPrompt(outcome) ==
    IF outcome = "success" THEN "EXTRACT_SUCCESS_PROMPT" ELSE "EXTRACT_FAILURE_PROMPT"

\* faulty variant of NeedsRefine: the round count is not looked at
NeedsRefineIgnoresRounds(ok, rounds) == ~ok

\* if not ok_apply: if self_refine_rounds > 0   (agent.py:112-114)
NeedsRefine(ok, rounds) == ~ok /\ rounds > 0

\* where attempt_once goes after the first apply_patch
AfterApply(ok, rounds) == IF NeedsRefine(ok, rounds) THEN "refine" ELSE "test"

\* faulty variant of AfterRefine: a refined patch that fails is refined again
\* while rounds are configured
AfterRefineRetries(ok, rounds) == IF ~ok /\ rounds > 1 THEN "refine" ELSE "test"

\* where attempt_once goes after the refined patch was applied: on to the tests
AfterRefine(ok, rounds) == "test"

\* faulty variant of AfterDistill: the result is returned without the add
AfterDistillSkipsPersist == "return"

\* where attempt_once goes after extract_memory: store.add_items
AfterDistill == "persist"

(***************************************************************************)
(* runner.main and agent.attempt_once, one action per step.                *)
(***************************************************************************)
Issues == {<<"fix", "loop">>, <<"the">>}

\* the memory file main finds: absent (created empty), or left by an earlier run
InitLogs ==
    { <<>>,
      <<JsonDumps(MemoryItem(<<"fix">>, <<"fix">>, <<"loop">>, "success"))>>,
      <<BadLine, JsonDumps(MemoryItem(<<"the">>, <<"a">>, <<"a">>, "failure"))>> }

Init ==
    /\ pc = "main"
    /\ args \in [k : 0..MaxK, refine : (-1)..MaxRefine, issue : Issues]
    /\ log \in InitLogs
    /\ lastSearch = NoSearch /\ adding = Closed
    /\ llm = DefaultLLM
    /\ i = 0 /\ results = <<>> /\ best = NoBest
    /\ NoAttempt
    /\ tree \in BOOLEAN /\ raised = NoRaise

\* an exception nothing catches: the process ends
Crash(exc, at) ==
    /\ pc' = "crashed"
    /\ raised' = [exc |-> exc, at |-> at]

\* runner.py:16-26: ensure_git(repo), then the LLM and the store are built
MainEnsureGit ==
    /\ pc = "main"
    /\ \E code \in GitCodes :
          IF ensure_git(code) # None
          THEN Crash(ensure_git(code), "main") /\ UNCHANGED i
          ELSE pc' = "loop" /\ i' = 1 /\ UNCHANGED raised
    /\ UNCHANGED <<storeVars, attemptVars, args, llm, results, best, tree>>

\* runner.py:30-32: the loop calls attempt_once for attempt i
AttemptCall ==
    /\ pc = "loop"
    /\ i <= args.k
    /\ pc' = "ensure_git"
    /\ trace' = <<>> /\ branchCode' = 0 /\ retrieved' = <<>> /\ patch' = <<>>
    /\ apply1' = FALSE /\ ok_apply' = FALSE /\ testRun' = NoRun /\ success' = FALSE
    /\ prompt' = None /\ out' = <<>> /\ items' = <<>> /\ traj_log' = <<>>
    /\ UNCHANGED <<storeVars, mainVars, tree, raised>>

\* agent.py:101
EnsureGit ==
    /\ pc = "ensure_git"
    /\ trace' = Append(trace, "ensure_git")
    /\ \E code \in GitCodes :
          IF ensure_git(code) # None
          THEN Crash(ensure_git(code), "ensure_git")
          ELSE pc' = "new_branch" /\ UNCHANGED raised
    /\ UNCHANGED <<storeVars, mainVars, tree, branchCode, retrieved, patch, apply1,
                   ok_apply, testRun, success, items, traj_log, prompt, out>>

\* agent.py:102: new_branch runs "git checkout -B" and drops its exit code
NewBranch ==
    /\ pc = "new_branch"
    /\ trace' = Append(trace, "new_branch")
    /\ \E code \in GitCodes : branchCode' = code
    /\ pc' = "retrieve"
    /\ UNCHANGED <<storeVars, mainVars, tree, raised, retrieved, patch, apply1,
                   ok_apply, testRun, success, items, traj_log, prompt, out>>

\* agent.py:104: retrieved = store.search(issue_text, top_k=1)
Retrieve ==
    /\ pc = "retrieve"
    /\ trace' = Append(trace, "search")
    /\ LET res == search(log, args.issue, RetrieveTopK)
       IN  /\ lastSearch' = [called |-> TRUE, query |-> args.issue,
                             top_k |-> RetrieveTopK, data |-> load(log), res |-> res]
           /\ IF res.raised # None
              THEN Crash(res.raised, "search") /\ UNCHANGED retrieved
              ELSE pc' = "generate" /\ retrieved' = res.out /\ UNCHANGED raised
    /\ UNCHANGED <<log, adding, mainVars, tree, branchCode, patch, apply1, ok_apply, testRun,
                   success, items, traj_log, prompt, out>>

\* agent.py:105-108: the prompts, llm.complete, extract_patch
Generate ==
    /\ pc = "generate"
    /\ trace' = Append(trace, "generate")
    /\ \E fails \in 0..StopAfterAttempt, text \in ModelOuts :
          LET r == complete(fails, text)
          IN  IF r.raised # None
              THEN Crash(r.raised, "generate") /\ UNCHANGED patch
              ELSE pc' = "apply" /\ patch' = extract_patch(r.text) /\ UNCHANGED raised
    /\ UNCHANGED <<storeVars, mainVars, tree, branchCode, retrieved, apply1, ok_apply,
                   testRun, success, items, traj_log, prompt, out>>

\* agent.py:109-114: apply_patch, the first entries of traj_log, the refine test
Apply ==
    /\ pc = "apply"
    /\ trace' = Append(trace, "apply")
    /\ \E code \in {0, 1}, partial \in BOOLEAN :
          LET res == apply_patch(patch, code)
          IN  /\ ok_apply' = res.ok
              /\ apply1' = res.ok
              /\ tree' = TreeAfter(tree, res, code, partial)
              /\ traj_log' = <<[tag |-> "PATCH_APPLY_OK", val |-> res.ok]>>
              /\ pc' = AfterApply(res.ok, args.refine)
    /\ UNCHANGED <<storeVars, mainVars, raised, branchCode, retrieved, patch, testRun,
                   success, items, prompt, out>>

\* agent.py:115-118: the refine completion, extract_patch, apply_patch again
Refine ==
    /\ pc = "refine"
    /\ \E fails \in 0..StopAfterAttempt, text \in ModelOuts, code \in {0, 1},
          partial \in BOOLEAN :
          LET r == complete(fails, text)
              res == apply_patch(extract_patch(text), code)
          IN  IF r.raised # None
              THEN /\ Crash(r.raised, "refine")
                   /\ trace' = Append(trace, "refine")
                   /\ UNCHANGED <<patch, ok_apply, tree, traj_log>>
              ELSE /\ trace' = trace \o <<"refine", "reapply">>
                   /\ patch' = extract_patch(text)
                   /\ ok_apply' = res.ok
                   /\ tree' = TreeAfter(tree, res, code, partial)
                   /\ traj_log' = traj_log \o <<[tag |-> "REFINE1_OUT", val |-> TRUE],
                                                [tag |-> "PATCH_APPLY_OK", val |-> res.ok]>>
                   /\ pc' = AfterRefine(res.ok, args.refine)
                   /\ UNCHANGED raised
    /\ UNCHANGED <<storeVars, mainVars, branchCode, retrieved, apply1, testRun,
                   success, items, prompt, out>>

\* agent.py:121-122: label_success_from_tests runs the test command and labels
Test ==
    /\ pc = "test"
    /\ trace' = trace \o <<"test", "label">>
    /\ \E outcome \in RunOutcomes :
          LET r == run(outcome)
          IN  /\ testRun' = r
              /\ success' = label_success_from_tests(r.code)
              /\ traj_log' = Append(traj_log,
                                    [tag |-> "TEST_SUCCESS",
                                     val |-> label_success_from_tests(r.code)])
    /\ pc' = "distill"
    /\ UNCHANGED <<storeVars, mainVars, tree, raised, branchCode, retrieved, patch,
                   apply1, ok_apply, items, prompt, out>>

\* agent.py:125-126: outcome, extract_memory
Distill ==
    /\ pc = "distill"
    /\ trace' = Append(trace, "distill")
    /\ prompt' = ExtractPrompt(Outcome(success))
    /\ \E fails \in 0..StopAfterAttempt, text \in DistillOuts :
          LET r == complete(fails, text)
              outcome == Outcome(success)
          IN  IF r.raised # None
              THEN Crash(r.raised, "distill") /\ UNCHANGED <<out, items>>
              ELSE /\ out' = r.text
                   /\ items' = extract_memory(r.text, outcome)
                   /\ pc' = AfterDistill
                   /\ UNCHANGED raised
    /\ UNCHANGED <<storeVars, mainVars, tree, branchCode, retrieved, patch, apply1,
                   ok_apply, testRun, success, traj_log>>

\* faulty variant of Persist: the items of a failed attempt are returned in
\* the result and not written to the file
PersistOnSuccessOnly ==
    /\ pc = "persist"
    /\ trace' = Append(trace, "add_items")
    /\ \E fail \in BOOLEAN, written \in 0..Len(items) :
          IF fail
          THEN /\ log' = add_items(log, SubSeq(items, 1, written))
               /\ Crash("OSError", "add_items")
          ELSE /\ log' = add_items(log, IF success THEN items ELSE <<>>)
               /\ pc' = "return"
               /\ UNCHANGED raised
    /\ UNCHANGED <<lastSearch, adding, mainVars, tree, branchCode, retrieved, patch, apply1,
                   ok_apply, testRun, success, items, traj_log, prompt, out>>

\* agent.py:127: store.add_items(items); the write may fail part-way (OSError)
Persist ==
    /\ pc = "persist"
    /\ trace' = Append(trace, "add_items")
    /\ \E fail \in BOOLEAN, written \in 0..Len(items) :
          IF fail
          THEN /\ log' = add_items(log, SubSeq(items, 1, written))
               /\ Crash("OSError", "add_items")
          ELSE /\ log' = add_items(log, items)
               /\ pc' = "return"
               /\ UNCHANGED raised
    /\ UNCHANGED <<lastSearch, adding, mainVars, tree, branchCode, retrieved, patch, apply1,
                   ok_apply, testRun, success, items, traj_log, prompt, out>>

\* faulty variant of Branch: the attempt's number left out of the name
BranchWithoutIndex(n) == 1

\* branch = f"{base_branch_name}-{i}" (runner.py:31): the name, as its number
Branch(n) == n

\* agent.py:129-136 and runner.py:33-34: the result is returned and appended
Return ==
    /\ pc = "return"
    /\ trace' = Append(trace, "return")
    /\ results' = Append(results,
                         [branch |-> Branch(i), success |-> success, test_log |-> testRun.out,
                          traj_log |-> traj_log, retrieved |-> retrieved,
                          memory_added |-> items])
    /\ i' = i + 1
    /\ pc' = "loop"
    /\ UNCHANGED <<storeVars, args, llm, best, tree, raised, branchCode, retrieved, patch,
                   apply1, ok_apply, testRun, success, items, traj_log, prompt, out>>

\* faulty variant of PickBest: the loop without its break, so the last
\* successful result stays in best
PickBestNoBreak ==
    /\ pc = "loop"
    /\ i > args.k
    /\ IF results = <<>>
       THEN Crash("IndexError", "pick") /\ UNCHANGED best
       ELSE /\ best' = IF \E x \in DOMAIN results : results[x].success
                       THEN results[CHOOSE x \in DOMAIN results :
                                       /\ results[x].success
                                       /\ \A y \in (x + 1)..Len(results) : ~results[y].success]
                       ELSE results[1]
            /\ pc' = "done"
            /\ UNCHANGED raised
    /\ UNCHANGED <<storeVars, attemptVars, args, llm, i, results, tree>>

\* runner.py:37-43: the first successful result, else results[0]
PickBest ==
    /\ pc = "loop"
    /\ i > args.k
    /\ IF results = <<>>
       THEN Crash("IndexError", "pick") /\ UNCHANGED best
       ELSE /\ best' = IF \E x \in DOMAIN results : results[x].success
                       THEN results[CHOOSE x \in DOMAIN results :
                                       /\ results[x].success
                                       /\ \A y \in 1..(x - 1) : ~results[y].success]
                       ELSE results[1]
            /\ pc' = "done"
            /\ UNCHANGED raised
    /\ UNCHANGED <<storeVars, attemptVars, args, llm, i, results, tree>>

Next ==
    \/ MainEnsureGit
    \/ AttemptCall
    \/ EnsureGit
    \/ NewBranch
    \/ Retrieve
    \/ Generate
    \/ Apply
    \/ Refine
    \/ Test
    \/ Distill
    \/ Persist
    \/ Return
    \/ PickBest

\* a run of main with any --k up to MaxK
Spec == Init /\ [][Next]_vars

\* main run with --k 1: attempt_once, once, on any of the initial stores and
\* working trees
InitAttempt == Init /\ args.k = 1

SpecAttempt == InitAttempt /\ [][Next]_vars

\* main run with any --k on a clean tree and an empty memory file, with
\* "--refine 1" and one issue text
InitRun ==
    Init /\ args.refine = 1 /\ args.issue = <<"fix", "loop">> /\ log = <<>> /\ ~tree

SpecRun == InitRun /\ [][Next]_vars

\* main run as in InitRun, on any memory file an earlier run may have left
InitRunOnStore ==
    Init /\ args.refine = 1 /\ args.issue = <<"fix", "loop">> /\ ~tree

SpecRunOnStore == InitRunOnStore /\ [][Next]_vars

(***************************************************************************)
(* extract_memory on its own: the parser applied to a response made of a   *)
(* preamble and up to MaxBlocks blocks, each of one of the shapes below.   *)
(***************************************************************************)
\* most blocks of a response
MaxBlocks == 4

\* the shapes of a block: as asked for; with a content of two lines; without
\* "## Content"; without "## Title"; with nothing after "## Title" on its
\* line; with nothing after "## Content"
BlockShapes ==
    { Block(<<"fix">>, <<"fix">>, <<"loop">>),
      Block(<<"loop">>, <<"fix", " ", "loop">>, <<"loop", "\n", "fix">>),
      <<ItemMark, "\n">> \o Line(TitleMark, <<"fix">>) \o Line(DescriptionMark, <<"loop">>),
      <<ItemMark, "\n">> \o Line(DescriptionMark, <<"fix">>) \o Line(ContentMark, <<"loop">>),
      <<ItemMark, "\n", TitleMark, "\n">> \o Line(DescriptionMark, <<"fix">>)
          \o Line(ContentMark, <<"loop">>),
      <<ItemMark, "\n">> \o Line(TitleMark, <<"loop">>) \o Line(DescriptionMark, <<"fix">>)
          \o <<ContentMark, "\n">> }

\* what a response begins with
Preambles == {<<>>, <<"fix", "loop", "\n">>}

RECURSIVE Concat(_)
Concat(texts) == IF texts = <<>> THEN <<>> ELSE Head(texts) \o Concat(Tail(texts))

\* the responses the parser is applied to
Responses ==
    {pre \o Concat(bs) : pre \in Preambles,
                         bs \in UNION {[1..n -> BlockShapes] : n \in 0..MaxBlocks}}

DistillInit ==
    /\ pc = "extract_memory"
    /\ out \in Responses
    /\ success \in BOOLEAN
    /\ prompt = ExtractPrompt(Outcome(success))
    /\ items = <<>>
    /\ log = <<>> /\ lastSearch = NoSearch /\ adding = Closed
    /\ args = [k |-> 0, refine |-> 0, issue |-> <<>>]
    /\ llm = DefaultLLM
    /\ i = 0 /\ results = <<>> /\ best = NoBest
    /\ trace = <<>> /\ branchCode = 0 /\ retrieved = <<>> /\ patch = <<>>
    /\ apply1 = FALSE /\ ok_apply = FALSE /\ testRun = NoRun /\ traj_log = <<>>
    /\ tree = FALSE /\ raised = NoRaise

\* agent.py:82-98: the response parsed
ExtractMemory ==
    /\ pc = "extract_memory"
    /\ items' = extract_memory(out, Outcome(success))
    /\ pc' = "extracted"
    /\ UNCHANGED <<storeVars, mainVars, tree, raised, trace, branchCode, retrieved, patch,
                   apply1, ok_apply, testRun, success, prompt, out, traj_log>>

SpecDistill == DistillInit /\ [][ExtractMemory]_vars

(***************************************************************************)
(* LLM.complete on its own (llm.py:33-54): tenacity calls the body again   *)
(* after every exception until stop_after_attempt(3) says stop, sleeping   *)
(* wait_exponential(multiplier=1, min=2, max=10) in between.               *)
(***************************************************************************)
WaitMin == 2

WaitMax == 10

\* wait_exponential: multiplier * 2 ** (attempt_number - 1), kept in [min, max]
wait_exponential(n) == Max(WaitMin, Min(2 ^ (n - 1), WaitMax))

\* faulty variant of stop_after_attempt: one attempt more is allowed
stop_after_attemptLate(n) == n > StopAfterAttempt

\* stop_after_attempt(3): stop once attempt_number >= 3
stop_after_attempt(n) == n >= StopAfterAttempt

Providers == {"anthropic", "openai"}

\* what a provider invocation raises: a failure that may pass, and one that
\* will not; no retry= is given, so tenacity retries after either
Failures == {"APIConnectionError", "AuthenticationError"}

\* what a provider invocation answers, also with whitespace around it
ProviderTexts ==
    LET texts == ModelOuts \cup DistillOuts
    IN  texts \cup {<<"\n">> \o t \o <<" ", "\n">> : t \in texts}

\* what the body returns: the text parts joined (anthropic, llm.py:42) or
\* message.content.strip() (openai, llm.py:54)
ProviderReturn(provider, text) == IF provider = "openai" THEN strip(text) ELSE text

CompleteInit ==
    /\ pc = "complete"
    /\ llm \in {[provider |-> p, calls |-> 0, waits |-> <<>>, last |-> None] : p \in Providers}
    /\ log = <<>> /\ lastSearch = NoSearch /\ adding = Closed
    /\ args = [k |-> 0, refine |-> 0, issue |-> <<>>]
    /\ i = 0 /\ results = <<>> /\ best = NoBest
    /\ NoAttempt
    /\ tree = FALSE /\ raised = NoRaise

\* one run of the body of complete: the provider answers or raises
Invoke ==
    /\ pc = "complete"
    /\ \E ok \in BOOLEAN, text \in ProviderTexts, exc \in Failures :
          IF ok
          THEN /\ llm' = [llm EXCEPT !.calls = @ + 1]
               /\ out' = ProviderReturn(llm.provider, text)
               /\ pc' = "returned"
               /\ UNCHANGED raised
          ELSE /\ llm' = [llm EXCEPT !.calls = @ + 1, !.last = exc]
               /\ UNCHANGED out
               /\ IF stop_after_attempt(llm.calls + 1)
                  THEN Crash("RetryError", "complete")
                  ELSE pc' = "sleep" /\ UNCHANGED raised
    /\ UNCHANGED <<storeVars, args, i, results, best, tree, trace, branchCode, retrieved,
                   patch, apply1, ok_apply, testRun, success, prompt, items, traj_log>>

\* tenacity sleeps before the next attempt
Sleep ==
    /\ pc = "sleep"
    /\ llm' = [llm EXCEPT !.waits = Append(@, wait_exponential(llm.calls))]
    /\ pc' = "complete"
    /\ UNCHANGED <<storeVars, args, i, results, best, tree, raised, attemptVars>>

CompleteNext == Invoke \/ Sleep

SpecComplete == CompleteInit /\ [][CompleteNext]_vars

(***************************************************************************)
(* An add in flight beside a search.  add_items holds the file open in     *)
(* append mode and writes one line per item; nothing locks the file and    *)
(* nothing replaces it atomically.  What f.write hands over stays in f's   *)
(* buffer until the buffer is full or f is closed, so the lines of one add *)
(* reach the file in one piece or in several, as their sizes decide.  A    *)
(* second caller (a thread, or another run on the same path) may search at *)
(* any moment; _load reads the lines that are in the file by then.  A line *)
(* cut by a flush is not JSON until its rest arrives, and _load skips it:  *)
(* to a reader it is a line not yet written.                               *)
(***************************************************************************)
\* memory_store.py:39, open(self.path, "a"): f starts with an empty buffer
AddOpen(its) ==
    /\ pc = "store"
    /\ ~adding.open
    /\ Len(log) + Len(its) <= MaxLog
    /\ adding' = [open |-> TRUE, start |-> Len(log), items |-> its, next |-> 1,
                  buffer |-> <<>>]
    /\ UNCHANGED <<log, lastSearch, pc, attemptVars, mainVars, tree, raised>>

\* memory_store.py:40-41, one turn of the loop: f.write of the item's line.
\* full: the line filled f's buffer, which is written out to the file
AddWrite ==
    /\ pc = "store"
    /\ adding.open
    /\ adding.next <= Len(adding.items)
    /\ \E full \in BOOLEAN :
          LET buffered == Append(adding.buffer, JsonDumps(adding.items[adding.next]))
          IN  /\ log' = IF full THEN log \o buffered ELSE log
              /\ adding' = [adding EXCEPT !.next = adding.next + 1,
                                          !.buffer = IF full THEN <<>> ELSE buffered]
    /\ UNCHANGED <<lastSearch, pc, attemptVars, mainVars, tree, raised>>

\* the end of the with block: f is closed, which writes its buffer out
AddClose ==
    /\ pc = "store"
    /\ adding.open
    /\ adding.next > Len(adding.items)
    /\ log' = log \o adding.buffer
    /\ adding' = Closed
    /\ UNCHANGED <<lastSearch, pc, attemptVars, mainVars, tree, raised>>

InterleaveNext ==
    \/ \E its \in ItemLists : AddOpen(its)
    \/ AddWrite
    \/ AddClose
    \/ \E q \in Queries, n \in TopKs : StoreSearch(q, n)

SpecInterleave == StoreInit /\ [][InterleaveNext]_vars

(***************************************************************************)
(* Properties.                                                             *)
(***************************************************************************)
Count(seq, e) == Cardinality({x \in DOMAIN seq : seq[x] = e})

Has(seq, e) == e \in Range(seq)

IsPrefix(a, b) == Len(a) <= Len(b) /\ SubSeq(b, 1, Len(a)) = a

\* the attempt that was called has ended: it returned, or an exception left it
AttemptOver == pc \in {"loop", "done"} \/ (pc = "crashed" /\ raised.at # "main")

\* the calls of an attempt that does not refine, in the order of the steps
\* INIT, RETRIEVE, GENERATE, APPLY, TEST, LABEL, DISTILL, PERSIST, DONE
StepsPlain ==
    <<"ensure_git", "new_branch", "search", "generate", "apply",
      "test", "label", "distill", "add_items", "return">>

\* the same with the REFINE step: the refine completion and the second apply
StepsRefined ==
    <<"ensure_git", "new_branch", "search", "generate", "apply", "refine", "reapply",
      "test", "label", "distill", "add_items", "return">>

\* C1: the calls an attempt has made are always an initial part of the fixed
\* order INIT, RETRIEVE, GENERATE, APPLY, [REFINE], TEST, LABEL, DISTILL,
\* PERSIST, DONE: none before its predecessor, none twice, and a result is in
\* main's list only when the attempt's last calls were add_items and return.
C1_LinearOrder ==
    /\ IsPrefix(trace, StepsPlain) \/ IsPrefix(trace, StepsRefined)
    /\ (pc \in {"loop", "done"} /\ results # <<>>) =>
          /\ Len(trace) >= 2
          /\ trace[Len(trace)] = "return"
          /\ trace[Len(trace) - 1] = "add_items"

\* an attempt that refined has returned its result
C1_Witness == pc = "done" /\ trace = StepsRefined /\ Len(results) = 1

\* C2 (as claimed): after INIT no failure of a completion call or of the store
\* add leaves the attempt as an exception.
C2_FailuresCaptured ==
    pc = "crashed" => raised.at \notin {"generate", "refine", "distill", "add_items"}

\* C3: the success flag, in the attempt and in its result, is true exactly
\* when the test command's exit code is 0, whatever the applies did.
C3_SuccessIffExitZero ==
    /\ Has(trace, "label") => (success <=> testRun.code = 0)
    /\ (pc \in {"loop", "done"} /\ results # <<>>) =>
          (results[Len(results)].success <=> testRun.code = 0)

\* both applies failed, the test exited 0, and the result says success
C3_Witness ==
    /\ pc = "done"
    /\ Has(trace, "reapply") /\ ~apply1 /\ ~ok_apply
    /\ testRun.code = 0
    /\ results[1].success

\* C4: once the first apply has run, the refine completion is called (or is
\* the next step) exactly when that apply failed and the round count is at
\* least 1; a second apply happens only after a refine completion, and an
\* attempt that reaches the tests has made both or neither.
C4_RefineIffApplyFailed ==
    /\ Has(trace, "apply") =>
          ((~apply1 /\ args.refine >= 1) <=> (pc = "refine" \/ Has(trace, "refine")))
    /\ Has(trace, "reapply") => Has(trace, "refine")
    /\ Has(trace, "test") => (Has(trace, "refine") <=> Has(trace, "reapply"))

\* the first apply failed with no round configured: no refine, the test ran
C4_Witness ==
    /\ Has(trace, "test") /\ ~apply1 /\ args.refine = 0
    /\ ~Has(trace, "refine") /\ ~Has(trace, "reapply")

\* C5: an attempt makes at most one refine completion call and at most two
\* patch applications, whatever the round count.
C5_AtMostOneRefine ==
    /\ Count(trace, "refine") <= 1
    /\ Count(trace, "apply") + Count(trace, "reapply") <= 2

\* two rounds configured, the refined patch failed too, and the tests ran
C5_Witness ==
    /\ args.refine >= 2
    /\ Has(trace, "reapply") /\ ~ok_apply
    /\ Has(trace, "test")

\* C6 (as claimed): an attempt that got past GENERATE and has ended ran the
\* test command exactly once, after its last patch application.
C6_TestRunExactlyOnce ==
    (AttemptOver /\ Has(trace, "apply")) =>
        /\ Count(trace, "test") = 1
        /\ \A x, y \in DOMAIN trace :
              (trace[x] \in {"apply", "reapply"} /\ trace[y] = "test") => x < y

\* C7 (as claimed): when INIT fails, by ensure_git or by the checkout of the
\* branch, the attempt makes no further call.
C7_InitFailureFatal ==
    /\ (pc = "crashed" /\ raised.at = "ensure_git") => trace = <<"ensure_git">>
    /\ (Has(trace, "new_branch") /\ branchCode # 0) =>
          trace = <<"ensure_git", "new_branch">>

\* C8: a test command that times out raises nothing: run returns 124 and the
\* attempt is labeled a failure; and whenever run returns 124, timeout or
\* not, the label is failure.
C8_TimeoutIsFailure ==
    /\ (pc = "crashed") => raised.at # "test"
    /\ Has(trace, "label") =>
          /\ testRun.timedOut => (testRun.code = TimeoutCode /\ ~success)
          /\ testRun.code = TimeoutCode => ~success

\* the test command timed out and the attempt returned its result
C8_Witness ==
    /\ pc = "done"
    /\ testRun.timedOut
    /\ ~results[1].success

\* C8 (as claimed): as C8_TimeoutIsFailure, and run returns 124 only when a
\* timeout occurred.
C8_SentinelOnlyOnTimeout ==
    Has(trace, "label") =>
        /\ testRun.timedOut => (testRun.code = TimeoutCode /\ ~success)
        /\ testRun.code = TimeoutCode => testRun.timedOut

C10_EmptyStoreSearch ==
    (lastSearch.called /\ \A x \in DOMAIN log : log[x].kind # "json") =>
        /\ lastSearch.res.raised = None
        /\ lastSearch.res.out = <<>>

\* the empty file searched with a query of stop words only and a negative top_k
C10_Witness ==
    /\ lastSearch.called
    /\ log = <<>>
    /\ lastSearch.query = <<"the">>
    /\ lastSearch.top_k < 0

\* C11: after add_items([item]) on a file that held no record, a search for
\* the item's title with top_k >= 1 returns, and returns that item first.
C11_TitleFindsItem ==
    LET r == lastSearch.res
        data == lastSearch.data
    IN  (/\ lastSearch.called
         /\ Len(data) = 1
         /\ \A x \in DOMAIN log : log[x].kind = "json" => log[x].val \in StoreItems
         /\ lastSearch.query = data[1].title
         /\ lastSearch.top_k >= 1) =>
            /\ r.raised = None
            /\ r.out # <<>>
            /\ r.out[1] = data[1]

\* C12: a search leaves the file as it was, and what it returned is what the
\* same search (same query, same top_k) returns on the store it leaves
\* behind: a repeated search with no add in between returns the same
\* records in the same order.
C12_SearchPure ==
    [][lastSearch'.called =>
          /\ log' = log
          /\ lastSearch'.data = load(log')
          /\ lastSearch'.res = search(log', lastSearch'.query, lastSearch'.top_k)]_vars

\* a search that returned two records out of three, on a file that also
\* holds a line that is not JSON
C12_Witness ==
    /\ lastSearch.called
    /\ Len(lastSearch.res.out) = 2
    /\ Len(lastSearch.data) = 2
    /\ \E x \in DOMAIN log : log[x].kind = "bad"
    /\ lastSearch.res = search(log, lastSearch.query, lastSearch.top_k)

\* C13: the file only grows at its end.  Every step leaves the lines it
\* held as an unchanged prefix, and a call add_items(its) leaves the file as
\* the old lines followed by one line per item of its, in the order of its.
C13_AppendOnly ==
    [][/\ IsPrefix(log, log')
       /\ \A its \in ItemLists :
             StoreAdd(its) => log' = log \o [x \in DOMAIN its |-> JsonDumps(its[x])]]_vars

\* a file that began with a line that is not JSON and received two
\* different items after it
C13_Witness ==
    /\ Len(log) = 3
    /\ log[1].kind = "bad"
    /\ log[2].kind = "json" /\ log[3].kind = "json"
    /\ log[2].val # log[3].val

\* the value a block gives a subfield: what follows the mark on its line, or
\* to the end of the block for the content, trimmed; empty without the mark
FieldOf(blk, mark, toEnd) ==
    LET ps == {x \in DOMAIN blk : blk[x] = mark}
    IN  IF ps = {} THEN <<>>
        ELSE LET p == CHOOSE x \in ps : \A y \in ps : x <= y
             IN  strip(SubSeq(blk, p + 1, IF toEnd THEN Len(blk) ELSE LineEnd(blk, p)))

\* the block carries all three subfields
CarriesAll(blk) ==
    /\ FieldOf(blk, TitleMark, FALSE) # <<>>
    /\ FieldOf(blk, DescriptionMark, FALSE) # <<>>
    /\ FieldOf(blk, ContentMark, TRUE) # <<>>

\* the blocks of a response that carry all three subfields, in response order
CarryingBlocks(text) == SelectSeq(SplitBlocks(text), CarriesAll)

\* C14: extract_memory returns one item for each of the first three blocks
\* that carry a title, a description and a content, in response order, with
\* the values the block gives them; every other block is dropped.
C14_FirstThreeCarrying ==
    pc = "extracted" =>
        LET kept == Slice(CarryingBlocks(out), DistillCap)
        IN  /\ Len(items) = Len(kept)
            /\ \A x \in DOMAIN kept :
                  /\ items[x].title = FieldOf(kept[x], TitleMark, FALSE)
                  /\ items[x].description = FieldOf(kept[x], DescriptionMark, FALSE)
                  /\ items[x].content = FieldOf(kept[x], ContentMark, TRUE)

\* C15: once an attempt has distilled, every item it produced carries
\* "success" if the attempt's tests exited 0 and "failure" otherwise, the
\* prompt it distilled with is the variant for that same label, and every
\* item in a result's memory_added carries the label of that result.
C15_OutcomeMatchesLabel ==
    /\ (Has(trace, "distill") /\ pc # "crashed") =>
          /\ \A x \in DOMAIN items : items[x].outcome = "success" <=> success
          /\ \A x \in DOMAIN items : items[x].outcome \in {"success", "failure"}
          /\ prompt = "EXTRACT_SUCCESS_PROMPT" <=> success
          /\ prompt \in {"EXTRACT_SUCCESS_PROMPT", "EXTRACT_FAILURE_PROMPT"}
    /\ \A r \in DOMAIN results : \A x \in DOMAIN results[r].memory_added :
          /\ results[r].memory_added[x].outcome = "success" <=> results[r].success
          /\ results[r].memory_added[x].outcome \in {"success", "failure"}

\* an attempt whose tests failed returned three items
C15_Witness ==
    /\ pc = "done"
    /\ ~results[1].success
    /\ Len(results[1].memory_added) = 3
    /\ prompt = "EXTRACT_FAILURE_PROMPT"

\* C16: an apply_patch of a patch text that holds NO_PATCH_NEEDED, the first
\* of the attempt or the one of the refined patch, reports success and
\* leaves the working tree as it was.
C16_SentinelIsNoOp ==
    [][/\ (pc = "apply" /\ "NO_PATCH_NEEDED" \in Range(patch)) =>
              (ok_apply' /\ apply1' /\ tree' = tree)
       /\ (pc = "refine" /\ pc' # "crashed" /\ "NO_PATCH_NEEDED" \in Range(patch')) =>
              (ok_apply' /\ tree' = tree)]_vars

\* the first patch was rejected with some hunks applied, and the refined
\* patch was the sentinel
C16_Witness ==
    /\ trace # <<>> /\ trace[Len(trace)] = "reapply"
    /\ "NO_PATCH_NEEDED" \in Range(patch)
    /\ ~apply1 /\ ok_apply
    /\ tree

\* C16 as stated: right after an apply_patch of a patch text that holds
\* NO_PATCH_NEEDED, success is reported and the workspace diff is empty.
C16_SentinelLeavesDiffEmpty ==
    (/\ trace # <<>> /\ trace[Len(trace)] \in {"apply", "reapply"}
     /\ "NO_PATCH_NEEDED" \in Range(patch)) =>
        (ok_apply /\ ~tree)

\* an attempt is running
InAttempt ==
    pc \in {"ensure_git", "new_branch", "retrieve", "generate", "apply", "refine",
            "test", "distill", "persist", "return"}

Successes == {x \in DOMAIN results : results[x].success}

\* C18: when main has chosen, best is the result of the lowest-numbered
\* attempt that succeeded, or of attempt 1 if none did; and with --k >= 1
\* a run whose attempts all returned does choose.
C18_FirstSuccessWins ==
    /\ pc = "done" =>
          /\ Len(results) = args.k
          /\ results # <<>>
          /\ IF Successes = {}
             THEN best = results[1]
             ELSE /\ best.success
                  /\ best.branch \in Successes
                  /\ \A x \in Successes : best.branch <= x
                  /\ best = results[best.branch]
    /\ (pc = "crashed" /\ raised.at = "pick") => args.k < 1

\* two attempts, the first failed and the second succeeded
C18_Witness ==
    /\ pc = "done"
    /\ Len(results) = 2
    /\ ~results[1].success /\ results[2].success
    /\ best.branch = 2

\* C18 as stated: for every --k, a run whose attempts all returned ends
\* with the first successful attempt chosen, or the first attempt.
C18_WinnerForEveryN ==
    (pc = "done" \/ (pc = "crashed" /\ raised.at = "pick")) =>
        /\ pc = "done"
        /\ results # <<>>
        /\ best = IF Successes = {} THEN results[1]
                  ELSE results[CHOOSE x \in Successes : \A y \in Successes : x <= y]

\* the line is malformed: it is not the JSON of an item
Malformed(line) == line.kind = "bad" \/ (line.kind = "json" /\ ~HasDocKeys(line.val))

RECURSIVE WellFormedOf(_)
\* the items of the well-formed lines of the file, in the order of the file
WellFormedOf(file) ==
    IF file = <<>> THEN <<>>
    ELSE IF Head(file).kind = "json" /\ HasDocKeys(Head(file).val)
         THEN <<Head(file).val>> \o WellFormedOf(Tail(file))
         ELSE WellFormedOf(Tail(file))

\* C19: a search on a file that holds malformed lines raises nothing and
\* ranks exactly the items of the well-formed lines, read in the order of
\* the file (a query and items without any token set aside: C11).
C19_MalformedSkipped ==
    LET good == WellFormedOf(log)
    IN  (/\ lastSearch.called
         /\ \E x \in DOMAIN log : Malformed(log[x])
         /\ ~EmptyVocabulary(good, lastSearch.query)) =>
            /\ lastSearch.res.raised = None
            /\ lastSearch.data = good
            /\ \A p \in DOMAIN lastSearch.res.out : lastSearch.res.out[p] \in Range(good)

\* title, description, content and outcome of the item are non-empty
AllFieldsNonEmpty(it) ==
    /\ it.title # <<>> /\ it.description # <<>> /\ it.content # <<>>
    /\ it.outcome \in {"success", "failure"}

\* C20: every item an attempt distilled, returned or wrote to the memory
\* file has a non-empty title, description, content and outcome, and the
\* items distilled are no more than the blocks of the response that give
\* all three subfields a value.
C20_FieldsNonEmpty ==
    /\ \A x \in DOMAIN items : AllFieldsNonEmpty(items[x])
    /\ \A x \in DOMAIN log : log[x].kind = "json" => AllFieldsNonEmpty(log[x].val)
    /\ \A r \in DOMAIN results : \A x \in DOMAIN results[r].memory_added :
          AllFieldsNonEmpty(results[r].memory_added[x])
    /\ Len(items) <= Len(CarryingBlocks(out))

\* C21: in the result of a search that returns, of two records with equal
\* similarity to the query the one at the lower position of the file comes
\* first, and the later one is never returned without the earlier one.
C21_StableTies ==
    LET r == lastSearch.res
        data == lastSearch.data
        sims == Sims(data, lastSearch.query)
        At(x) == {p \in DOMAIN r.idx : r.idx[p] = x}
    IN  (lastSearch.called /\ data # <<>> /\ r.raised = None) =>
            \A a, b \in DOMAIN data :
                (a < b /\ sims[a] = sims[b] /\ At(b) # {}) =>
                    /\ At(a) # {}
                    /\ \A p \in At(a), q \in At(b) : p < q

\* top_k = 1 cut between two records that score the same, above zero
C21_Witness ==
    /\ lastSearch.called
    /\ lastSearch.res.raised = None
    /\ Len(lastSearch.data) >= 2
    /\ lastSearch.top_k = 1
    /\ lastSearch.res.idx = <<1>>
    /\ LET sims == Sims(lastSearch.data, lastSearch.query)
       IN  sims[1] = sims[2] /\ sims[1] > 0

\* C22: one complete call invokes the provider at most three times; it
\* returns at the first invocation that answers, after as many sleeps as
\* invocations failed before it, and invokes nothing after returning; it
\* raises only when the third invocation in a row has failed.
C22_BoundedRetry ==
    /\ [](/\ llm.calls <= 3
          /\ \A x \in DOMAIN llm.waits : llm.waits[x] >= 2 /\ llm.waits[x] <= 10
          /\ pc = "returned" =>
                /\ llm.calls >= 1
                /\ Len(llm.waits) = llm.calls - 1
                /\ llm.last = None <=> llm.calls = 1
                /\ raised = NoRaise
          /\ raised # NoRaise =>
                /\ raised.exc = "RetryError"
                /\ llm.calls = 3
                /\ llm.last # None
                /\ Len(llm.waits) = 2
          /\ pc = "crashed" => raised # NoRaise)
    /\ [][pc = "returned" => llm' = llm]_vars
    /\ [][llm'.calls = llm.calls + 1 =>
             /\ pc = "complete"
             /\ Len(llm.waits) = llm.calls
             /\ (pc' = "returned" \/ llm'.last # None)]_vars

\* the openai provider answered at the third invocation
C22_Witness ==
    /\ pc = "returned"
    /\ llm.provider = "openai"
    /\ llm.calls = 3
    /\ llm.waits = <<2, 2>>
    /\ out # <<>>

\* C23: a search with top_k >= 1 on a file whose lines hold n >= 1 items
\* (and no other JSON) returns exactly min(top_k, n) records, no position
\* of the file twice.
C23_ExactlyMinTopKN ==
    LET r == lastSearch.res
        n == Len(lastSearch.data)
    IN  (/\ lastSearch.called
         /\ n >= 1
         /\ \A x \in DOMAIN lastSearch.data : HasDocKeys(lastSearch.data[x])
         /\ lastSearch.top_k >= 1) =>
            /\ r.raised = None
            /\ Len(r.out) = Min(lastSearch.top_k, n)
            /\ \A p, q \in DOMAIN r.idx : p # q => r.idx[p] # r.idx[q]

\* the items of the add in flight that a reader of the file finds in it
SeenOfAdd(data) == Len(data) - Len(load(SubSeq(log, 1, adding.start)))

\* C24: a search whose reload runs while an add of several items is in
\* flight ranks all of that add's items or none of them, never some of them
\* without the others.
C24_AllOrNone ==
    [][(/\ adding.open
        /\ UNCHANGED <<log, adding>>
        /\ lastSearch'.called
        /\ lastSearch'.res.raised = None) =>
            SeenOfAdd(lastSearch'.data) \in {0, Len(adding.items)}]_vars

RECURSIVE AllAdded(_, _)
\* the memory_added lists of the first n results, one after the other
AllAdded(rs, n) ==
    IF n = 0 THEN <<>> ELSE AllAdded(rs, n - 1) \o rs[n].memory_added

\* the file without the lines the returned attempts report as added
LogBeforeRun == SubSeq(log, 1, Len(log) - Len(AllAdded(results, Len(results))))

\* the records search loads in attempt n: the file before the attempt's add
StoreBefore(n) == load(WriteAll(LogBeforeRun, AllAdded(results, n - 1)))

\* C25: between attempts and at the end of the run, the file is the file the
\* run found followed by the memory_added lists of the attempts that have
\* returned, in attempt order, each of at most 3 items; an attempt's
\* retrieved list has at most one record, taken from the records the file
\* held before that attempt's add, and is empty when it held none.
C25_StoreGrowsByMemoryAdded ==
    /\ [](pc \in {"loop", "done"} =>
            /\ LogBeforeRun \in InitLogs
            /\ log = WriteAll(LogBeforeRun, AllAdded(results, Len(results)))
            /\ \A n \in DOMAIN results :
                  /\ Len(results[n].memory_added) <= DistillCap
                  /\ Len(results[n].retrieved) <= 1
                  /\ \A x \in DOMAIN results[n].retrieved :
                        results[n].retrieved[x] \in Range(StoreBefore(n))
                  /\ StoreBefore(n) = <<>> => results[n].retrieved = <<>>)
    /\ [][IsPrefix(log, log')]_vars

\* two attempts returned on a file that was not empty; both retrieved a
\* record, the second one an item the first attempt added
C25_Witness ==
    /\ pc = "done"
    /\ Len(results) = 2
    /\ LogBeforeRun # <<>>
    /\ results[1].retrieved # <<>>
    /\ results[1].memory_added # <<>>
    /\ results[2].memory_added # <<>>
    /\ results[2].retrieved # <<>>
    /\ results[2].retrieved[1] \in Range(results[1].memory_added)
    /\ results[2].retrieved[1] \notin Range(load(LogBeforeRun))

====
